---- MODULE Spec2Model ----
(***************************************************************************)
(* Model of the smart-home assistant pipeline: agent.py (router, executor, *)
(* summarizer), the gateway boundary of llm_client.py and the capability   *)
(* table (device_controller.py, data_connectors.py).                       *)
(*                                                                         *)
(* Python values are records [t, v]: t is the Python type, v the text as a *)
(* sequence of strings (characters where the code works on characters,     *)
(* larger chunks where it only passes the text along).                     *)
(***************************************************************************)
EXTENDS Integers, Sequences, FiniteSets, TLC

\* ------------------------------------------------------------------ bounds
\* Longest native tool_calls list a completion reply carries.
MaxCalls == 2

\* ------------------------------------------------------------ Python values
NoneVal == [t |-> "none", v |-> <<>>]
Str(chunks) == [t |-> "str", v |-> chunks]

UpperChars == <<"A","B","C","D","E","F","G","H","I","J","K","L","M",
                "N","O","P","Q","R","S","T","U","V","W","X","Y","Z">>
LowerChars == <<"a","b","c","d","e","f","g","h","i","j","k","l","m",
                "n","o","p","q","r","s","t","u","v","w","x","y","z">>
Whitespace == {" ", "\n", "\t", "\r"}

\* str.lower()
LowerChar(c) ==
    IF \E i \in 1..26 : UpperChars[i] = c
    THEN LowerChars[CHOOSE i \in 1..26 : UpperChars[i] = c]
    ELSE c
Lower(s) == [i \in 1..Len(s) |-> LowerChar(s[i])]

\* str.strip()
RECURSIVE LStrip(_)
LStrip(s) == IF s # <<>> /\ Head(s) \in Whitespace THEN LStrip(Tail(s)) ELSE s
RECURSIVE RStrip(_)
RStrip(s) ==
    IF s # <<>> /\ s[Len(s)] \in Whitespace
    THEN RStrip(SubSeq(s, 1, Len(s) - 1)) ELSE s
Strip(s) == RStrip(LStrip(s))

\* the Python operator  sub in s  on strings
Contains(sub, s) ==
    \E i \in 0..(Len(s) - Len(sub)) : SubSeq(s, i + 1, i + Len(sub)) = sub

TOOL_USE == <<"t","o","o","l","_","u","s","e">>
CHOICES  == <<"c","h","o","i","c","e","s">>

\* --------------------------------------------------------- capability table
AVAILABLE_FUNCTIONS ==
    {"call_turn_on_device", "call_turn_off_device", "call_get_current_weather",
     "call_get_current_time", "call_get_current_date", "call_get_news_headlines"}

DEVICE_MAP ==
    {"kitchen_lamp", "bathroom_lamp", "room1_lamp", "room2_lamp",
     "room1_ac", "kitchen_ac", "living_room_tv"}

\* A decoded argument mapping is a set of <<key, value>> pairs.
Keys(m) == {p[1] : p \in m}
ValueOf(m, k) == (CHOOSE p \in m : p[1] = k)[2]


\* ------------------------------------------------- argument payloads, JSON
\* The argument field of a structured call: an encoded string (kind "str",
\* the text in text) or an already decoded mapping (kind "map", in map).
ArgString(txt) == [kind |-> "str", text |-> txt, map |-> {}]
ArgMapping(m) == [kind |-> "map", text |-> "", map |-> m]

EmptyObjectText == "{}"
KitchenLampText == "{\"device_id\": \"kitchen_lamp\"}"
GarageDoorText  == "{\"device_id\": \"garage_door\"}"
TruncatedText   == "{\"device_id\": "
ListText        == "[\"kitchen_lamp\"]"

\* json.loads: the decoded value, or the exception it raises.  A payload
\* that is not a str (bytes, bytearray) makes json.loads raise TypeError.
JsonOk(value_type, m) == [raised |-> "", type |-> value_type, map |-> m]
JsonRaise(exc) == [raised |-> exc, type |-> "", map |-> {}]
json_loads(payload) ==
    IF payload.kind # "str" THEN JsonRaise("TypeError")
    ELSE CASE payload.text = EmptyObjectText -> JsonOk("dict", {})
           [] payload.text = KitchenLampText ->
                  JsonOk("dict", {<<"device_id", "kitchen_lamp">>})
           [] payload.text = GarageDoorText ->
                  JsonOk("dict", {<<"device_id", "garage_door">>})
           [] payload.text = ListText -> JsonOk("list", {})
           [] OTHER -> JsonRaise("JSONDecodeError")

\* ------------------------------------------------------------- capabilities
\* What a capability gives back: a returned value (type dict with a success
\* field, or a plain str) or a raised exception.  sent counts the Modbus
\* commands the call sent.
CapReturn(value_type, success, tag, n) ==
    [raised |-> "", type |-> value_type, success |-> success, tag |-> tag, sent |-> n]
CapRaise(exc) ==
    [raised |-> exc, type |-> "", success |-> "", tag |-> "", sent |-> 0]

\* send_modbus_command reports TRUE or FALSE (it catches every exception).
control_device(args, action_name) ==
    IF ValueOf(args, "device_id") \notin DEVICE_MAP
    THEN {CapReturn("dict", "false", "device not found", 0)}
    ELSE {CapReturn("dict", "true", action_name, 1),
          CapReturn("dict", "false", "failed to send command", 1)}

\* get_current_weather: a text on success and on every handled error; an
\* unhandled exception when the reply lacks the expected structure
\* (data["weather"][0] on an empty list raises IndexError).
get_current_weather ==
    {CapReturn("str", "absent", "Current weather in ...", 0),
     CapReturn("str", "absent", "Error ...", 0),
     CapRaise("IndexError")}

get_current_time == {CapReturn("str", "absent", "Current time: ...", 0)}
get_current_date == {CapReturn("str", "absent", "Today is ...", 0)}

get_news_headlines ==
    {CapReturn("str", "absent", "Latest news ...", 0),
     CapReturn("str", "absent", "Error ...", 0)}

\* function_to_call(**function_args): the keywords are bound to the
\* parameters of the function first (TypeError when one does not fit or a
\* required one is missing), then the body runs.
Parameters(name) ==
    CASE name \in {"call_turn_on_device", "call_turn_off_device"} -> {"device_id"}
      [] name = "call_get_current_weather" -> {"city", "unit"}
      [] name = "call_get_news_headlines" -> {"category", "country"}
      [] OTHER -> {}
Required(name) ==
    IF name \in {"call_turn_on_device", "call_turn_off_device"}
    THEN {"device_id"} ELSE {}
Binds(name, args) == Keys(args) \subseteq Parameters(name) /\ Required(name) \subseteq Keys(args)

CapabilityBody(name, args) ==
    CASE name = "call_turn_on_device" -> control_device(args, "turned on")
      [] name = "call_turn_off_device" -> control_device(args, "turned off")
      [] name = "call_get_current_weather" -> get_current_weather
      [] name = "call_get_current_time" -> get_current_time
      [] name = "call_get_current_date" -> get_current_date
      [] name = "call_get_news_headlines" -> get_news_headlines


\* A call that unpacks whatever was decoded, mapping or not.
Entered_AnyValue(name, decoded) == Binds(name, decoded.map)

\* function_to_call(**function_args) enters the body of the capability
\* only when the decoded value is a mapping whose keys bind.
Entered(name, decoded) == decoded.type = "dict" /\ Binds(name, decoded.map)

\* Line 111 of agent.py for a name of the table: every outcome of
\* function_to_call(**function_args) on the decoded value.
Invoke(name, decoded) ==
    IF ~Entered(name, decoded)
    THEN {CapRaise("TypeError")}
    ELSE CapabilityBody(name, decoded.map)

\* json.dumps(result) of a returned value
json_dumps(o) == Str(<<o.type, o.success, o.tag>>)

\* ------------------------------------------------------- structured calls
\* One entry of the tool_calls list: id, function.name and
\* function.arguments.
Call(id, name, arguments) == [id |-> id, name |-> name, arguments |-> arguments]

CallNames ==
    {"call_turn_on_device", "call_get_current_time",
     "call_get_current_weather", "call_open_garage"}
CallPayloads ==
    {ArgString(EmptyObjectText), ArgString(KitchenLampText),
     ArgString(TruncatedText), ArgString(ListText),
     ArgMapping({<<"device_id", "kitchen_lamp">>})}

\* The lists of 1..MaxCalls calls; the call at position i has id i.
Batches ==
    UNION {[1..n -> CallNames \X CallPayloads] : n \in 1..MaxCalls}
CallsOf(b) == [i \in 1..Len(b) |-> Call(i, b[i][1], b[i][2])]

\* ------------------------------------------------ free text of a reply
\* The chunks that open and close a fenced block tagged json (three
\* backquotes followed by json, and three backquotes).
FenceOpen == "<fence json>"
FenceClose == "<fence>"

FencedTimeCall ==
    <<FenceOpen, "[{\"name\":\"call_get_current_time\",\"arguments\":{}}]", FenceClose>>
FencedLampObject ==
    <<"Okay.", FenceOpen,
      "{\"name\":\"call_turn_on_device\",\"arguments\":{\"device_id\":\"kitchen_lamp\"}}",
      FenceClose>>
FencedTruncated == <<FenceOpen, "[{\"name\":", FenceClose>>
FencedNumber == <<FenceOpen, "42", FenceClose>>
PlainText == <<"The lamp is in the kitchen.">>
\* Two adjacent bare call objects, the second without its closing brace.
BareObjects ==
    <<"{\"name\":\"call_get_current_time\",\"arguments\":{}}",
      "{\"name\":\"call_turn_on_device\",\"arguments\":{\"device_id\":\"kitchen_lamp\"}">>
TaggedText == <<"<think>", "no tool fits", "</think>", "I cannot do that.">>

\* json.loads of the text of a fenced block: its type and, for a list or
\* an object, the call objects it holds (their arguments already decoded).
JsonDocument(text) ==
    CASE text = <<FencedTimeCall[2]>> ->
             [raised |-> "", type |-> "list",
              calls |-> <<Call(0, "call_get_current_time", ArgMapping({}))>>]
      [] text = <<FencedLampObject[3]>> ->
             [raised |-> "", type |-> "dict",
              calls |-> <<Call(0, "call_turn_on_device",
                               ArgMapping({<<"device_id", "kitchen_lamp">>}))>>]
      [] text = <<"42">> -> [raised |-> "", type |-> "int", calls |-> <<>>]
      [] text = <<"[]">> -> [raised |-> "", type |-> "list", calls |-> <<>>]
      [] text = <<EmptyObjectText>> ->
             [raised |-> "", type |-> "dict", calls |-> <<Call(0, "", ArgMapping({}))>>]
      [] OTHER -> [raised |-> "JSONDecodeError", type |-> "", calls |-> <<>>]

\* parse_tool_calls_from_content: the first fenced json block of the
\* text, decoded; found is FALSE where the function returns None.
NoCalls == [found |-> FALSE, calls |-> <<>>]
parse_tool_calls_from_content(content) ==
    LET opens == {i \in 1..Len(content) : content[i] = FenceOpen}
    IN  IF opens = {} THEN NoCalls
        ELSE LET i == CHOOSE k \in opens : \A m \in opens : k <= m
                 closes == {j \in (i + 1)..Len(content) :
                               content[j] \in {FenceOpen, FenceClose}}
             IN  IF closes = {} THEN NoCalls
                 ELSE LET j == CHOOSE k \in closes : \A m \in closes : k <= m
                          data == JsonDocument(SubSeq(content, i + 1, j - 1))
                      IN  IF data.raised # "" THEN NoCalls
                          ELSE IF data.type \in {"list", "dict"}
                               THEN [found |-> TRUE, calls |-> data.calls]
                               ELSE NoCalls

\* ------------------------------------------------------ completion replies
\* The message of a choice: its content and its tool_calls list (empty
\* where the key is absent, null or an empty list: .get() is falsy).
Message(content, calls) == [content |-> content, tool_calls |-> calls]
NoToolCalls == << >>

\* What one call of get_llm_response hands to agent.py.  llm_client.py
\* gives an exception (TypeError for a keyword it does not take, such as
\* tools or temperature; ValueError for a missing key or an unknown
\* preferred_service; KeyError for a body without choices), None (both
\* providers failed) or a str (the text of the first choice).  agent.py
\* reads the reply as a dict with a list under "choices" (lines 46-47,
\* 97-104, 128-130), so the dict shapes it distinguishes are replies too.
RaiseReply == [kind |-> "raise", text |-> <<>>, has_choices |-> FALSE, choices |-> <<>>]
NoneReply == [kind |-> "none", text |-> <<>>, has_choices |-> FALSE, choices |-> <<>>]
StrReply(text) == [kind |-> "str", text |-> text, has_choices |-> FALSE, choices |-> <<>>]
DictReply(has, choices) == [kind |-> "dict", text |-> <<>>, has_choices |-> has, choices |-> choices]
UsableReply(message) == DictReply(TRUE, <<message>>)

\* Replies of llm_client.get_llm_response that carry no choice.
GatewayFailures ==
    {RaiseReply, NoneReply, StrReply(<<"H","i">>),
     StrReply(<<"n","o"," ">> \o CHOICES),
     DictReply(FALSE, <<>>), DictReply(TRUE, <<>>)}

\* Truth of  response and "choices" in response and response["choices"] :
\* "yes", "no", or the exception the test raises (a str is subscripted
\* with a str when it contains the text "choices").
HasChoices(r) ==
    CASE r.kind = "none" -> "no"
      [] r.kind = "str" ->
             IF r.text = <<>> THEN "no"
             ELSE IF Contains(CHOICES, r.text) THEN "TypeError" ELSE "no"
      [] r.kind = "dict" -> IF r.has_choices /\ r.choices # <<>> THEN "yes" ELSE "no"

LabelUpper  == <<"T","O","O","L","_","U","S","E">>
LabelPadded == <<" ","T","o","o","l","_","u","s","e","\n">>
LabelQuoted == <<"\"","t","o","o","l","_","u","s","e","\"",".">>
LabelOther  == <<"c","o","n","v","e","r","s","a","t","i","o","n">>
EmptyText   == << >>
ClassifyContents ==
    {Str(TOOL_USE), Str(LabelUpper), Str(LabelPadded), Str(LabelQuoted),
     Str(LabelOther), Str(EmptyText), NoneVal}
RouterReplies ==
    GatewayFailures \cup {UsableReply(Message(c, NoToolCalls)) : c \in ClassifyContents}

ActionContents ==
    {NoneVal, Str(PlainText), Str(TaggedText), Str(BareObjects), Str(FencedTimeCall),
     Str(FencedLampObject), Str(FencedTruncated), Str(FencedNumber)}
ActionReplies ==
    GatewayFailures
    \cup {UsableReply(Message(c, NoToolCalls)) : c \in ActionContents}
    \cup {UsableReply(Message(NoneVal, CallsOf(b))) : b \in Batches}
    \cup {UsableReply(Message(c, CallsOf(b))) :
              c \in {Str(PlainText), Str(FencedTimeCall)},
              b \in {x \in Batches : Len(x) = 1}}

DoneText == <<"Done.">>
TextContents == {Str(DoneText), Str(EmptyText), NoneVal}
TextReplies ==
    GatewayFailures \cup {UsableReply(Message(c, NoToolCalls)) : c \in TextContents}

\* Replies to the synthesis request: those of a text request, and replies
\* that again carry structured calls or a fenced block of calls.
TimeCallBatch == <<Call(1, "call_get_current_time", ArgString(EmptyObjectText))>>
SynthesisReplies ==
    TextReplies
    \cup {UsableReply(Message(NoneVal, TimeCallBatch)),
          UsableReply(Message(Str(DoneText), TimeCallBatch)),
          UsableReply(Message(Str(FencedTimeCall), NoToolCalls))}


\* ---------------------------------------------------------------- messages
\* One message of the sequence sent to the completion service.
Msg(role, content, id, name, calls) ==
    [role |-> role, content |-> content, tool_call_id |-> id, name |-> name,
     tool_calls |-> calls]

RouterPrompt == <<"You are an intent classification system. ...">>
ExecutorPrompt == <<"You are a smart home assistant. First, call the necessary tools ...">>
ConversePrompt == <<"You are a friendly and helpful smart home assistant. ...">>
FinalInstruction == <<"You have successfully executed all required tools ...">>
UserText == <<"turn on the kitchen lamp and tell me the time">>

SystemMsg(prompt) == Msg("system", Str(prompt), 0, "", NoToolCalls)
UserMsg(text) == Msg("user", Str(text), 0, "", NoToolCalls)
AssistantMsg(m) == Msg("assistant", m.content, 0, "", m.tool_calls)
ToolMsg(call, o) == Msg("tool", json_dumps(o), call.id, call.name, NoToolCalls)

\* The fixed texts run_agent returns (written without apostrophes).
ActionApology == Str(<<"Error getting tool call decision.">>)
NoToolText ==
    Str(<<"I understand you want me to perform an action, but I could not determine which tool to use. Please rephrase.">>)
SummaryFailed == Str(<<"Tasks executed, but summary failed.">>)
ConverseApology == Str(<<"I am having trouble thinking of a response right now.">>)

\* One call of get_llm_response as agent.py makes it.
Request(step, msgs, tools, temperature) ==
    [step |-> step, messages |-> msgs, tools |-> tools, temperature |-> temperature]

\* -------------------------------------------------------------------- state
VARIABLES
    arg,        \* the argument of the function applied on its own (SpecParse, ...)
    out,        \* what that function gave back
    runs,       \* the invocations of run_agent that overlap (SpecPair)
    port,       \* the invocations that hold the serial port open (SpecPair)
    http,       \* what handle_agent_query answered (main_api.py)
    pc,         \* where run_agent stands: route, act, interpret, execute, converse, done
    intent,     \* what _get_intent returned ("" before it returns)
    messages,   \* the local list messages of run_agent
    response,   \* the reply of the action request
    tool_calls, \* the local list tool_calls
    idx,        \* position of the for loop in tool_calls
    invoked,    \* the capability calls made so far, in order
    requests,   \* the calls of get_llm_response made so far, in order
    replies,    \* what each of them gave back
    outcome,    \* running, returned or raised
    result,     \* the value run_agent returned
    fault,      \* the exception that left run_agent
    strategies  \* the extraction strategies used on the action reply

vars == <<pc, intent, messages, response, tool_calls, idx, invoked, requests,
          replies, outcome, result, fault, strategies, http, runs, port,
          arg, out>>

\* The state of one request served alone, and of overlapping invocations.
single == <<pc, intent, messages, response, tool_calls, idx, invoked, requests,
            replies, outcome, result, fault, strategies, http>>
pair == <<runs, port>>
apart == <<arg, out>>

\* The answer of the endpoint: "" while the request is being served.
Answer(status, body) == [status |-> status, body |-> body]
NoAnswer == Answer("", << >>)

Init ==
    /\ pc = "route"
    /\ intent = ""
    /\ messages = << >>
    /\ response = NoneReply
    /\ tool_calls = << >>
    /\ idx = 0
    /\ invoked = << >>
    /\ requests = << >>
    /\ replies = << >>
    /\ outcome = "running"
    /\ result = NoneVal
    /\ fault = ""
    /\ strategies = {}
    /\ http = NoAnswer
    /\ runs = << >>
    /\ port = {}
    /\ arg = << >>
    /\ out = << >>

\* return value  /  an exception leaving run_agent
Return(value) ==
    /\ pc' = "done"
    /\ outcome' = "returned"
    /\ result' = value
    /\ fault' = ""
Raise(exc) ==
    /\ pc' = "done"
    /\ outcome' = "raised"
    /\ result' = NoneVal
    /\ fault' = exc
Goto(label) ==
    /\ pc' = label
    /\ UNCHANGED <<outcome, result, fault>>

\* get_llm_response(...) is called with req and gives r.
Ask(req, r) ==
    /\ requests' = Append(requests, req)
    /\ replies' = Append(replies, r)

\* The exception a gateway reply makes the caller raise before it reads a
\* choice, "" when there is none.
ReplyFault(r) ==
    IF r.kind = "raise" THEN "GatewayError"
    ELSE IF HasChoices(r) \notin {"yes", "no"} THEN HasChoices(r) ELSE ""

\* ------------------------------------------------------------- _get_intent
\* The value _get_intent computes from the reply: the intent, or the
\* exception raised (None has no strip()).
IsToolUse(content) == Contains(TOOL_USE, Lower(Strip(content)))
get_intent(r) ==
    IF ReplyFault(r) # "" THEN [raised |-> ReplyFault(r), intent |-> ""]
    ELSE IF HasChoices(r) = "no" THEN [raised |-> "", intent |-> "conversation"]
    ELSE LET content == r.choices[1].content
         IN  IF content.t # "str"
             THEN [raised |-> "AttributeError", intent |-> ""]
             ELSE [raised |-> "",
                   intent |-> IF IsToolUse(content.v) THEN "tool_use"
                              ELSE "conversation"]

\* run_agent, line 88: intent = _get_intent(user_message, preferred_service)
Route ==
    /\ pc = "route"
    /\ \E r \in RouterReplies :
        /\ Ask(Request("classify", <<SystemMsg(RouterPrompt), UserMsg(UserText)>>,
                       FALSE, "0"), r)
        /\ LET got == get_intent(r)
           IN  IF got.raised # ""
               THEN Raise(got.raised) /\ UNCHANGED intent
               ELSE /\ intent' = got.intent
                    /\ Goto(IF got.intent = "tool_use" THEN "act" ELSE "converse")
    /\ UNCHANGED <<messages, response, tool_calls, idx, invoked, strategies, http, pair, apart>>


\* ------------------------------------------------- run_agent, tool_use path
\* Lines 92-98: the action request, sent with the tools schema.
RequestAction ==
    /\ pc = "act"
    /\ LET msgs == <<SystemMsg(ExecutorPrompt), UserMsg(UserText)>>
       IN  /\ messages' = msgs
           /\ \E r \in ActionReplies :
               /\ Ask(Request("action", msgs, TRUE, "default"), r)
               /\ IF ReplyFault(r) # ""
                  THEN Raise(ReplyFault(r)) /\ UNCHANGED response
                  ELSE IF HasChoices(r) = "no"
                       THEN Return(ActionApology) /\ UNCHANGED response
                       ELSE response' = r /\ Goto("interpret")
    /\ UNCHANGED <<intent, tool_calls, idx, invoked, strategies, http, pair, apart>>

\* The answer of the earlier orchestrator: the free text of the reply.
NoToolCallsAnswer_FreeText(message) == message.content

\* Lines 101-102: what run_agent returns for a message without tool_calls.
NoToolCallsAnswer(message) == NoToolText

\* Line 101: truth of response_message.get("tool_calls").
HasToolCalls(message) == message.tool_calls # << >>

\* Lines 100-105: read the native tool_calls list of the reply.
Interpret ==
    /\ pc = "interpret"
    /\ LET response_message == response.choices[1]
       IN  IF ~HasToolCalls(response_message)
           THEN /\ Return(NoToolCallsAnswer(response_message))
                /\ UNCHANGED <<messages, tool_calls, idx, strategies>>
           ELSE /\ tool_calls' = response_message.tool_calls
                /\ strategies' = {"native"}
                /\ messages' = Append(messages, AssistantMsg(response_message))
                /\ idx' = 1
                /\ Goto("execute")
    /\ UNCHANGED <<intent, response, invoked, requests, replies, http, pair, apart>>

\* One entry of invoked: the call whose capability body was entered, the
\* decoded value it was given and what it gave back.
Invocation(call, decoded, o) ==
    [id |-> call.id, name |-> call.name, args |-> decoded.map,
     args_type |-> decoded.type, raised |-> o.raised, sent |-> o.sent,
     type |-> o.type, success |-> o.success]

\* Lines 107-113: one iteration of the for loop over tool_calls.
ExecuteCall ==
    /\ pc = "execute"
    /\ idx <= Len(tool_calls)
    /\ LET tool_call == tool_calls[idx]
           function_args == json_loads(tool_call.arguments)
       IN  IF function_args.raised # ""
           THEN /\ Raise(function_args.raised)
                /\ UNCHANGED <<messages, idx, invoked>>
           ELSE IF tool_call.name \notin AVAILABLE_FUNCTIONS
                THEN /\ idx' = idx + 1
                     /\ Goto("execute")
                     /\ UNCHANGED <<messages, invoked>>
                ELSE \E o \in Invoke(tool_call.name, function_args) :
                       /\ invoked' =
                            IF Entered(tool_call.name, function_args)
                            THEN Append(invoked,
                                        Invocation(tool_call, function_args, o))
                            ELSE invoked
                       /\ IF o.raised # ""
                          THEN Raise(o.raised) /\ UNCHANGED <<messages, idx>>
                          ELSE /\ messages' = Append(messages, ToolMsg(tool_call, o))
                               /\ idx' = idx + 1
                               /\ Goto("execute")
    /\ UNCHANGED <<intent, response, tool_calls, requests, replies, strategies, http, pair, apart>>

\* The value run_agent returns from a reply with a choice (lines 130, 140).
ReplyContent(r) == r.choices[1].content

\* A summary request that passes the tools schema again.
SynthesisTools_Schema == TRUE

\* Line 127: the summary request passes no tools.
SynthesisTools == FALSE

\* Lines 115-130: the loop is over; append the final instruction and ask
\* for the summary, without tools.
Synthesize ==
    /\ pc = "execute"
    /\ idx > Len(tool_calls)
    /\ LET msgs == Append(messages, UserMsg(FinalInstruction))
       IN  /\ messages' = msgs
           /\ \E r \in SynthesisReplies :
               /\ Ask(Request("synthesis", msgs, SynthesisTools, "default"), r)
               /\ IF ReplyFault(r) # "" THEN Raise(ReplyFault(r))
                  ELSE IF HasChoices(r) = "no" THEN Return(SummaryFailed)
                       ELSE Return(ReplyContent(r))
    /\ UNCHANGED <<intent, response, tool_calls, idx, invoked, strategies, http, pair, apart>>

\* ---------------------------------------------- run_agent, conversation path
\* A conversation path that asks again after a failed request.
ConverseFailed_Retry == Goto("converse")

\* Line 140: no usable reply to the conversation request.
ConverseFailed == Return(ConverseApology)

\* Lines 132-140.
Converse ==
    /\ pc = "converse"
    /\ LET msgs == <<SystemMsg(ConversePrompt), UserMsg(UserText)>>
       IN  /\ messages' = msgs
           /\ \E r \in TextReplies :
               /\ Ask(Request("conversation", msgs, FALSE, "default"), r)
               /\ IF ReplyFault(r) # "" THEN Raise(ReplyFault(r))
                  ELSE IF HasChoices(r) = "no" THEN ConverseFailed
                       ELSE Return(ReplyContent(r))
    /\ UNCHANGED <<intent, response, tool_calls, idx, invoked, strategies, http, pair, apart>>

\* ------------------------------------------- main_api.handle_agent_query
\* The type _format_response gives a successful result: the first of the
\* words weather, time, date, news, device that the name contains.
ResponseType(tool_call_name) ==
    CASE tool_call_name = "call_get_current_weather" -> "weather"
      [] tool_call_name = "call_get_current_time" -> "time"
      [] tool_call_name = "call_get_current_date" -> "date"
      [] tool_call_name = "call_get_news_headlines" -> "news"
      [] tool_call_name \in {"call_turn_on_device", "call_turn_off_device"} -> "device"
      [] OTHER -> "general"

\* One object of the answer.
ResponseObject(type, content, data) ==
    [type |-> type, content |-> content, data |-> data]

\* _format_response(tool_call_name, tool_result)
format_response(tool_call_name, tool_result) ==
    IF tool_result.success # "true"
    THEN ResponseObject("error", Str(<<"An error occurred while executing ",
                                      tool_call_name, ".">>), tool_result)
    ELSE ResponseObject(ResponseType(tool_call_name),
                        Str(<<tool_result.tag>>),
                        IF ResponseType(tool_call_name) = "device"
                        THEN NoneVal ELSE tool_result)

\* The answer for what run_agent returned (lines 79-93): one formatted
\* object per item when it is a list, one general object otherwise.
AnswerBody(agent_results) ==
    IF agent_results.t = "list"
    THEN [k \in 1..Len(agent_results.v) |->
             format_response(agent_results.v[k].name, agent_results.v[k].data)]
    ELSE <<ResponseObject("general", agent_results, NoneVal)>>

\* Lines 72-73: an empty userInput is refused before run_agent is called.
RejectEmpty ==
    /\ pc = "route"
    /\ http = NoAnswer
    /\ http' = Answer("400", << >>)
    /\ pc' = "rejected"
    /\ UNCHANGED <<intent, messages, response, tool_calls, idx, invoked, requests,
                   replies, outcome, result, fault, strategies, pair, apart>>

\* Lines 75-93: run_agent has ended; an exception of run_agent leaves the
\* handler too (the framework answers 500).
Respond ==
    /\ pc = "done"
    /\ http = NoAnswer
    /\ http' = IF outcome = "raised" THEN Answer("500", << >>)
               ELSE Answer("200", AnswerBody(result))
    /\ UNCHANGED <<pc, intent, messages, response, tool_calls, idx, invoked,
                   requests, replies, outcome, result, fault, strategies, pair, apart>>

Next ==
    \/ Route \/ RequestAction \/ Interpret \/ ExecuteCall \/ Synthesize \/ Converse
    \/ RejectEmpty \/ Respond

Spec == Init /\ [][Next]_vars


\* ------------------------------------- two overlapping calls of run_agent
\* Each invocation has its own locals; what they share is the serial port
\* that send_modbus_command opens (modbus_utils.py, SERIAL_PORT).  The
\* local steps between two uses of the port are taken as one step.
Invocations == {1, 2}

\* The locals of one invocation.  opened: "" when no command is being sent,
\* "open" while the with block of send_modbus_command holds the port,
\* "refused" when opening raised because the port was held, "absent" when
\* opening raised because the adapter is not there.  alone: the tool
\* messages the same invocation appends when nothing else runs.
NewRun ==
    [pc |-> "route", messages |-> << >>, tool_calls |-> << >>, idx |-> 0,
     outcome |-> "running", result |-> NoneVal, fault |-> "", opened |-> "",
     alone |-> << >>]
RunReturn(run, value) ==
    [run EXCEPT !.pc = "done", !.outcome = "returned", !.result = value]
RunRaise(run, exc) ==
    [run EXCEPT !.pc = "done", !.outcome = "raised", !.fault = exc]

LampCall == <<"call_turn_on_device", ArgString(KitchenLampText)>>
TimeCall == <<"call_get_current_time", ArgString(EmptyObjectText)>>
PairBatches == UNION {[1..n -> {LampCall, TimeCall}] : n \in 1..MaxCalls}
PairRouterReplies ==
    {RaiseReply, UsableReply(Message(Str(TOOL_USE), NoToolCalls)),
     UsableReply(Message(Str(LabelOther), NoToolCalls))}
PairActionReplies ==
    {NoneReply, UsableReply(Message(Str(PlainText), NoToolCalls))}
    \cup {UsableReply(Message(NoneVal, CallsOf(b))) : b \in PairBatches}
PairTextReplies == {NoneReply, UsableReply(Message(Str(DoneText), NoToolCalls))}

InitPair ==
    /\ pc = "overlap"
    /\ intent = ""
    /\ messages = << >>
    /\ response = NoneReply
    /\ tool_calls = << >>
    /\ idx = 0
    /\ invoked = << >>
    /\ requests = << >>
    /\ replies = << >>
    /\ outcome = "running"
    /\ result = NoneVal
    /\ fault = ""
    /\ strategies = {}
    /\ http = NoAnswer
    /\ runs = [p \in Invocations |-> NewRun]
    /\ port = {}
    /\ arg = << >>
    /\ out = << >>

\* Line 88.
PairRoute(p) ==
    /\ runs[p].pc = "route"
    /\ \E r \in PairRouterReplies :
         LET got == get_intent(r)
         IN  runs' = [runs EXCEPT ![p] =
                        IF got.raised # "" THEN RunRaise(@, got.raised)
                        ELSE [@ EXCEPT !.pc = IF got.intent = "tool_use"
                                              THEN "act" ELSE "converse"]]
    /\ UNCHANGED <<port, single, apart>>

\* Lines 92-105: the action request and the reading of its tool_calls.
PairAct(p) ==
    /\ runs[p].pc = "act"
    /\ \E r \in PairActionReplies :
         LET msgs == <<SystemMsg(ExecutorPrompt), UserMsg(UserText)>>
             run == [runs[p] EXCEPT !.messages = msgs]
         IN  runs' = [runs EXCEPT ![p] =
                        IF ReplyFault(r) # "" THEN RunRaise(run, ReplyFault(r))
                        ELSE IF HasChoices(r) = "no" THEN RunReturn(run, ActionApology)
                        ELSE IF ~HasToolCalls(r.choices[1])
                             THEN RunReturn(run, NoToolCallsAnswer(r.choices[1]))
                             ELSE [run EXCEPT
                                      !.tool_calls = r.choices[1].tool_calls,
                                      !.messages = Append(msgs, AssistantMsg(r.choices[1])),
                                      !.idx = 1,
                                      !.pc = "execute"]]
    /\ UNCHANGED <<port, single, apart>>

\* The call reaches send_modbus_command: a device capability entered with
\* a device of the map (device_controller.py, lines 50-56).
SendsCommand(call) ==
    LET decoded == json_loads(call.arguments)
    IN  /\ decoded.raised = ""
        /\ call.name \in {"call_turn_on_device", "call_turn_off_device"}
        /\ Entered(call.name, decoded)
        /\ ValueOf(decoded.map, "device_id") \in DEVICE_MAP

\* modbus_utils.py, lines 53-63: serial.Serial(port=SERIAL_PORT, ...) opens
\* the port.  It raises when the adapter is absent; when another invocation
\* holds the port the open is refused where the platform opens serial ports
\* exclusively and succeeds where it does not.
PairOpenPort(p) ==
    /\ runs[p].pc = "execute"
    /\ runs[p].idx <= Len(runs[p].tool_calls)
    /\ runs[p].opened = ""
    /\ SendsCommand(runs[p].tool_calls[runs[p].idx])
    /\ \E got \in {"open", "absent"} \cup (IF port # {} THEN {"refused"} ELSE {}) :
         /\ runs' = [runs EXCEPT ![p].opened = got]
         /\ port' = IF got = "open" THEN port \cup {p} ELSE port
    /\ UNCHANGED <<single, apart>>

\* agent.py, lines 107-113, one turn of the loop; for a call that sends a
\* command this is the rest of send_modbus_command (lines 65-76: write,
\* sleep, leave the with block, or the except clauses) and of
\* _control_device (lines 56-61).
PairExecuteCall(p) ==
    /\ runs[p].pc = "execute"
    /\ runs[p].idx <= Len(runs[p].tool_calls)
    /\ LET run == runs[p]
           tool_call == run.tool_calls[run.idx]
           function_args == json_loads(tool_call.arguments)
       IN  IF SendsCommand(tool_call)
           THEN /\ run.opened # ""
                /\ LET outcomes == CapabilityBody(tool_call.name, function_args.map)
                       sent == CHOOSE o \in outcomes : o.success = "true"
                       unsent == CHOOSE o \in outcomes : o.success = "false"
                   IN  runs' = [runs EXCEPT ![p] =
                          [run EXCEPT
                             !.messages = Append(@, ToolMsg(tool_call,
                                 IF run.opened = "open" THEN sent ELSE unsent)),
                             !.alone = Append(@, ToolMsg(tool_call,
                                 IF run.opened = "absent" THEN unsent ELSE sent)),
                             !.opened = "",
                             !.idx = @ + 1]]
                /\ port' = port \ {p}
           ELSE /\ port' = port
                /\ IF function_args.raised # ""
                   THEN runs' = [runs EXCEPT ![p] = RunRaise(run, function_args.raised)]
                   ELSE IF tool_call.name \notin AVAILABLE_FUNCTIONS
                        THEN runs' = [runs EXCEPT ![p].idx = @ + 1]
                        ELSE \E o \in Invoke(tool_call.name, function_args) :
                               runs' = [runs EXCEPT ![p] =
                                  IF o.raised # "" THEN RunRaise(run, o.raised)
                                  ELSE [run EXCEPT
                                          !.messages = Append(@, ToolMsg(tool_call, o)),
                                          !.alone = Append(@, ToolMsg(tool_call, o)),
                                          !.idx = @ + 1]]
    /\ UNCHANGED <<single, apart>>

\* Lines 115-130.
PairSynthesize(p) ==
    /\ runs[p].pc = "execute"
    /\ runs[p].idx > Len(runs[p].tool_calls)
    /\ \E r \in PairTextReplies :
         LET run == [runs[p] EXCEPT !.messages = Append(@, UserMsg(FinalInstruction))]
         IN  runs' = [runs EXCEPT ![p] =
                        IF ReplyFault(r) # "" THEN RunRaise(run, ReplyFault(r))
                        ELSE IF HasChoices(r) = "no" THEN RunReturn(run, SummaryFailed)
                        ELSE RunReturn(run, ReplyContent(r))]
    /\ UNCHANGED <<port, single, apart>>

\* Lines 132-140.
PairConverse(p) ==
    /\ runs[p].pc = "converse"
    /\ \E r \in PairTextReplies :
         LET run == [runs[p] EXCEPT
                        !.messages = <<SystemMsg(ConversePrompt), UserMsg(UserText)>>]
         IN  runs' = [runs EXCEPT ![p] =
                        IF ReplyFault(r) # "" THEN RunRaise(run, ReplyFault(r))
                        ELSE IF HasChoices(r) = "no" THEN RunReturn(run, ConverseApology)
                        ELSE RunReturn(run, ReplyContent(r))]
    /\ UNCHANGED <<port, single, apart>>

NextPair ==
    \E p \in Invocations :
        \/ PairRoute(p) \/ PairAct(p) \/ PairOpenPort(p) \/ PairExecuteCall(p)
        \/ PairSynthesize(p) \/ PairConverse(p)

SpecPair == InitPair /\ [][NextPair]_vars


\* --------------------------------------------------- tools_definition.py
\* A schema entry that carries the bare function name.
pydantic_to_json_schema_Unprefixed(model, function_name) ==
    [type |-> "function", name |-> function_name, parameters |-> model]

\* Lines 49-72: the entry of one tool; its name is the function name with
\* the prefix call_.
pydantic_to_json_schema(model, function_name) ==
    [type |-> "function", name |-> "call_" \o function_name, parameters |-> model]

\* Lines 79-116: the list sent to the completion service with a request
\* that passes tools.
get_tools_schema ==
    <<pydantic_to_json_schema("DeviceControlArgs", "turn_on_device"),
      pydantic_to_json_schema("DeviceControlArgs", "turn_off_device"),
      pydantic_to_json_schema("WeatherArgs", "get_current_weather"),
      pydantic_to_json_schema("EmptyArgs", "get_current_time"),
      pydantic_to_json_schema("EmptyArgs", "get_current_date"),
      pydantic_to_json_schema("NewsArgs", "get_news_headlines")>>


\* ------------------------------------ a function applied on its own
\* run_agent, the endpoint and the port are not in use.
Idle ==
    /\ pc = "idle"
    /\ intent = ""
    /\ messages = << >>
    /\ response = NoneReply
    /\ tool_calls = << >>
    /\ idx = 0
    /\ invoked = << >>
    /\ requests = << >>
    /\ replies = << >>
    /\ outcome = "running"
    /\ result = NoneVal
    /\ fault = ""
    /\ strategies = {}
    /\ http = NoAnswer
    /\ runs = << >>
    /\ port = {}
NotCalled == [called |-> FALSE]

\* parse_tool_calls_from_content(content) on texts of at most MaxChunks
\* chunks (the chunks of a text are separated by white space).
MaxChunks == 3
ParseChunks ==
    {FenceOpen, FenceClose, "Okay.", "42", "[]", EmptyObjectText,
     "[{\"name\":", FencedTimeCall[2], FencedLampObject[3]}
ParseTexts == UNION {[1..n -> ParseChunks] : n \in 0..MaxChunks}
InitParse ==
    /\ Idle
    /\ arg \in ParseTexts
    /\ out = NotCalled
ApplyParse ==
    /\ out = NotCalled
    /\ out' = [called |-> TRUE, value |-> parse_tool_calls_from_content(arg)]
    /\ UNCHANGED <<arg, single, pair>>
SpecParse == InitParse /\ [][ApplyParse]_vars


\* ---------------------------------------------------------- llm_client.py
\* What one provider function does once its key is set (lines 31-37 and
\* 58-64): the content of the first choice, None after an exception of the
\* requests library, or an exception of the subscripts of line 34 / 61.
ProviderOutcomes ==
    {"text", "empty text", "timeout", "connection refused", "http error",
     "no choices", "empty choices"}

\* call_groq_llama3(prompt) and call_together_ai_llama3(prompt): posted
\* tells whether the request was sent.
call_llama3(key_set, did) ==
    IF ~key_set
    THEN [did |-> "", posted |-> FALSE, raised |-> "ValueError", value |-> NoneVal]
    ELSE [did |-> did,
          posted |-> TRUE,
          raised |-> CASE did = "no choices" -> "KeyError"
                       [] did = "empty choices" -> "IndexError"
                       [] OTHER -> "",
          value |-> CASE did = "text" -> Str(<<"I am an assistant.">>)
                      [] did = "empty text" -> Str(EmptyText)
                      [] OTHER -> NoneVal]

\* Truth of  if response:  for None or a str.
Truthy(reply) == reply.t = "str" /\ reply.v # << >>

\* A fall-back that asks the same provider again.
Fallback_Same(service) == service

\* Lines 78 and 85: the provider asked after the preferred one.
Fallback(service) == IF service = "groq" THEN "togetherai" ELSE "groq"

\* get_llm_response(prompt, preferred_service) on its own.  called: the
\* provider functions called, in order; got: what each gave back.
InitGateway ==
    /\ Idle
    /\ arg \in [preferred_service : {"groq", "togetherai", "Groq", "openai", ""},
                 keys : SUBSET {"groq", "togetherai"}]
    /\ out = NotCalled

\* Lines 72-75, 79-82, 86-87: the preferred provider.
GatewayFirst ==
    /\ out = NotCalled
    /\ IF arg.preferred_service \notin {"groq", "togetherai"}
       THEN out' = [called |-> << >>, got |-> << >>, stage |-> "done",
                    raised |-> "ValueError", value |-> NoneVal]
       ELSE \E did \in ProviderOutcomes :
              LET given == call_llama3(arg.preferred_service \in arg.keys, did)
              IN  out' = [called |-> <<arg.preferred_service>>,
                          got |-> <<given>>,
                          stage |-> IF given.raised = "" /\ ~Truthy(given.value)
                                    THEN "fallback" ELSE "done",
                          raised |-> given.raised,
                          value |-> given.value]
    /\ UNCHANGED <<arg, single, pair>>

\* Lines 76-78, 83-85: the other provider; its result is returned as it is.
GatewaySecond ==
    /\ out # NotCalled
    /\ out.stage = "fallback"
    /\ \E did \in ProviderOutcomes :
         LET service == Fallback(arg.preferred_service)
             given == call_llama3(service \in arg.keys, did)
         IN  out' = [called |-> Append(out.called, service),
                     got |-> Append(out.got, given),
                     stage |-> "done",
                     raised |-> given.raised,
                     value |-> given.value]
    /\ UNCHANGED <<arg, single, pair>>

NextGateway == GatewayFirst \/ GatewaySecond
SpecGateway == InitGateway /\ [][NextGateway]_vars


\* ------------------------------------------------------- modbus_utils.py
\* Bitwise exclusive or of two naturals below 2^16, by halves of w bits.
RECURSIVE XorBits(_, _, _)
XorBits(a, b, w) ==
    IF w = 1 THEN (a + b) % 2
    ELSE LET h == w \div 2
         IN  XorBits(a % (2 ^ h), b % (2 ^ h), h)
             + (2 ^ h) * XorBits(a \div (2 ^ h), b \div (2 ^ h), h)
Xor(a, b) == XorBits(a, b, 16)

CRC_INIT == 65535
CRC_POLY == 40961
FUNCTION_CODE == 6

\* Lines 21-26: the eight shifts for one byte; n shifts are left.
RECURSIVE CrcShifts(_, _)
CrcShifts(crc, n) ==
    IF n = 0 THEN crc
    ELSE IF crc % 2 = 1
         THEN CrcShifts(Xor(crc \div 2, CRC_POLY), n - 1)
         ELSE CrcShifts(crc \div 2, n - 1)

\* Lines 19-26, one pass of the outer loop: the register after one byte.
CrcAfter(crc, byte) == CrcShifts(Xor(crc, byte), 8)

\* Line 27: crc.to_bytes(2, byteorder="big")
ToBytes_BigEndian(crc) == <<crc \div 256, crc % 256>>

\* Line 27: crc.to_bytes(2, byteorder="little")
ToBytes(crc) == <<crc % 256, crc \div 256>>

\* Lines 38-44: the six bytes of the command before its CRC.
FrameHead(slave_id, register, value) ==
    <<slave_id, FUNCTION_CODE, register \div 256, register % 256,
      value \div 256, value % 256>>

\* generate_write_command(slave_id, register, value) on its own, for slave
\* ids of one byte and registers and values of two bytes.
FrameInputs ==
    [slave_id : {0, 1, 17, 54, 255},
     register : {0, 1, 255, 256, 65535},
     value : {0, 1, 2, 3, 65535}]
InitFrame ==
    /\ Idle
    /\ arg \in FrameInputs
    /\ out = NotCalled

\* Lines 38-46 and 18: the six bytes are appended and calculate_crc starts.
FrameStart ==
    /\ out = NotCalled
    /\ out' = [called |-> TRUE, stage |-> "crc",
               command |-> FrameHead(arg.slave_id, arg.register, arg.value),
               crc |-> CRC_INIT, i |-> 0]
    /\ UNCHANGED <<arg, single, pair>>

\* Lines 19-26: calculate_crc takes the next byte.
CrcByte ==
    /\ out # NotCalled
    /\ out.stage = "crc"
    /\ out.i < Len(out.command)
    /\ out' = [out EXCEPT !.crc = CrcAfter(@, out.command[out.i + 1]),
                          !.i = @ + 1]
    /\ UNCHANGED <<arg, single, pair>>

\* Lines 27 and 46-49: the two bytes of the register are appended.
FrameFinish ==
    /\ out # NotCalled
    /\ out.stage = "crc"
    /\ out.i = Len(out.command)
    /\ out' = [out EXCEPT !.stage = "returned",
                          !.command = @ \o ToBytes(out.crc)]
    /\ UNCHANGED <<arg, single, pair>>

NextFrame == FrameStart \/ CrcByte \/ FrameFinish
SpecFrame == InitFrame /\ [][NextFrame]_vars


\* -------------------------------------------------- device_controller.py
ON_VALUE == 2
OFF_VALUE == 1

\* The entries of DEVICE_MAP (lines 9-20; 0x36 is 54, 0x37 is 55).
DeviceEntry(slave_id, register, name) ==
    [slave_id |-> slave_id, register |-> register, name |-> name]
DeviceInfo(device_id) ==
    CASE device_id = "kitchen_lamp" -> DeviceEntry(54, 1, "Kitchen Lamp")
      [] device_id = "bathroom_lamp" -> DeviceEntry(54, 2, "Bathroom Lamp")
      [] device_id = "room1_lamp" -> DeviceEntry(54, 3, "Room 1 Lamp")
      [] device_id = "room2_lamp" -> DeviceEntry(54, 4, "Room 2 Lamp")
      [] device_id = "room1_ac" -> DeviceEntry(55, 1, "Room 1 AC Unit")
      [] device_id = "kitchen_ac" -> DeviceEntry(55, 2, "Kitchen AC Unit")
      [] device_id = "living_room_tv" -> DeviceEntry(55, 3, "Living Room TV")

\* A device function that sends the value of the other one.
DeviceCall_Swapped(fn) ==
    IF fn = "turn_on_device"
    THEN [value |-> OFF_VALUE, action_name |-> "turned on"]
    ELSE [value |-> ON_VALUE, action_name |-> "turned off"]

\* Lines 63-67: what turn_on_device and turn_off_device pass on.
DeviceCall(fn) ==
    IF fn = "turn_on_device"
    THEN [value |-> ON_VALUE, action_name |-> "turned on"]
    ELSE [value |-> OFF_VALUE, action_name |-> "turned off"]

\* The results of _control_device (lines 51, 58, 61).
DeviceNotFound(device_id) ==
    [success |-> FALSE, error |-> <<"Device not found.", device_id>>,
     deviceName |-> "", action |-> ""]
DeviceDone(name, action_name) ==
    [success |-> TRUE, error |-> << >>, deviceName |-> name, action |-> action_name]
DeviceFailed(name) ==
    [success |-> FALSE, error |-> <<"Failed to send command to", name>>,
     deviceName |-> "", action |-> ""]

\* turn_on_device(device_id) and turn_off_device(device_id) on their own.
\* generated: the commands generate_write_command was asked for, each by
\* its arguments (its bytes are the subject of SpecFrame); passed: those
\* given to send_modbus_command; port: what the serial port did with it.
WriteCommand(slave_id, register, value) ==
    [slave_id |-> slave_id, register |-> register, value |-> value]
DeviceIds ==
    DEVICE_MAP \cup {"garage_door", "", "Kitchen_Lamp", "kitchen lamp"}
InitDevice ==
    /\ Idle
    /\ arg \in [fn : {"turn_on_device", "turn_off_device"}, device_id : DeviceIds]
    /\ out = NotCalled

\* Lines 50-54: the lookup, and the command for a device of the map.
DeviceLookup ==
    /\ out = NotCalled
    /\ out' =
         IF arg.device_id \notin DEVICE_MAP
         THEN [called |-> TRUE, stage |-> "returned", generated |-> << >>,
               passed |-> << >>, port |-> "", reported |-> FALSE,
               value |-> DeviceNotFound(arg.device_id)]
         ELSE LET device_info == DeviceInfo(arg.device_id)
                  command == WriteCommand(device_info.slave_id,
                                 device_info.register, DeviceCall(arg.fn).value)
              IN  [called |-> TRUE, stage |-> "send", generated |-> <<command>>,
                   passed |-> << >>, port |-> "", reported |-> FALSE,
                   value |-> NoneVal]
    /\ UNCHANGED <<arg, single, pair>>

\* modbus_utils.py, lines 51-76: send_modbus_command(command) reports TRUE
\* when the bytes were written and FALSE when the port raised.
DeviceSend ==
    /\ out # NotCalled
    /\ out.stage = "send"
    /\ \E did \in {"written", "SerialException", "Exception"} :
         out' = [out EXCEPT !.stage = "sent",
                            !.passed = Append(@, out.generated[1]),
                            !.port = did,
                            !.reported = (did = "written")]
    /\ UNCHANGED <<arg, single, pair>>

\* Lines 56-61: the result for what the send reported.
DeviceReturn ==
    /\ out # NotCalled
    /\ out.stage = "sent"
    /\ LET device_info == DeviceInfo(arg.device_id)
       IN  out' = [out EXCEPT
                     !.stage = "returned",
                     !.value = IF out.reported
                               THEN DeviceDone(device_info.name,
                                               DeviceCall(arg.fn).action_name)
                               ELSE DeviceFailed(device_info.name)]
    /\ UNCHANGED <<arg, single, pair>>

NextDevice == DeviceLookup \/ DeviceSend \/ DeviceReturn
SpecDevice == InitDevice /\ [][NextDevice]_vars


\* ================================================================== claims
\* Shared vocabulary of the properties below.
Usable(r) == r.kind # "raise" /\ HasChoices(r) = "yes"
Issued(step) == \E k \in 1..Len(requests) : requests[k].step = step
ReplyTo(step) == replies[CHOOSE k \in 1..Len(requests) : requests[k].step = step]
IsToolResult(m) == m.role = "tool"
ToolResults == SelectSeq(messages, IsToolResult)
Failed(m) == m.content.v[2] = "false"
UnknownCalls == {i \in 1..Len(tool_calls) : tool_calls[i].name \notin AVAILABLE_FUNCTIONS}
BatchDone == tool_calls # << >> /\ idx > Len(tool_calls)

\* C1: every run of run_agent ends by returning a text string; no exception
\* leaves run_agent, whatever the completion replies and the capabilities do.
C1_AlwaysReturnsText ==
    pc = "done" => (outcome = "returned" /\ result.t = "str")

\* C2: when the action request fails in any shape (no reply, reply without
\* choices, gateway raising), run_agent returns the fixed apology, invokes no
\* capability, produces no action result and issues no synthesis request.
C2_ActionFailureApology ==
    (Issued("action") /\ ~Usable(ReplyTo("action")))
        => /\ outcome = "returned"
           /\ result = ActionApology
           /\ invoked = << >>
           /\ ToolResults = << >>
           /\ ~Issued("synthesis")

\* C3: the router returns tool_use exactly when the classification reply,
\* compared case-insensitively, is the label tool_use; every other content,
\* an empty reply and a failed request give conversation, and routing never
\* aborts the run.
IsLabel(r) ==
    /\ Usable(r)
    /\ r.choices[1].content.t = "str"
    /\ Lower(Strip(r.choices[1].content.v)) = TOOL_USE
C3_RouterExactLabel ==
    Issued("classify")
        => /\ ~(outcome = "raised" /\ Len(requests) = 1)
           /\ intent = IF IsLabel(ReplyTo("classify")) THEN "tool_use"
                       ELSE "conversation"

\* C4: a batch of N calls of which exactly one names an unknown action
\* yields N results in call order, the one for the unknown action failed.
C4_UnknownActionFailedResult ==
    (BatchDone /\ Cardinality(UnknownCalls) = 1)
        => /\ Len(ToolResults) = Len(tool_calls)
           /\ \A i \in 1..Len(tool_calls) :
                /\ ToolResults[i].tool_call_id = tool_calls[i].id
                /\ i \in UnknownCalls => Failed(ToolResults[i])

\* C5: an exception raised by a capability becomes a failed result of that
\* call and does not propagate; the later calls of the batch are executed
\* and the synthesis step is reached.
C5_CapabilityFaultIsolated ==
    \A k \in 1..Len(invoked) :
        invoked[k].raised # ""
            => /\ outcome # "raised"
               /\ idx > invoked[k].id
                    => \E j \in 1..Len(ToolResults) :
                          /\ ToolResults[j].tool_call_id = invoked[k].id
                          /\ Failed(ToolResults[j])
               /\ pc = "done" => (BatchDone /\ Issued("synthesis"))

\* C6: a string payload that fails to decode raises nothing: the call gets
\* a failed result and every other call of the batch is still executed.
Undecodable(i) ==
    /\ tool_calls[i].arguments.kind = "str"
    /\ json_loads(tool_calls[i].arguments).raised # ""
C6_MalformedArgsIsolated ==
    \A i \in 1..Len(tool_calls) :
        Undecodable(i)
            => /\ fault # "JSONDecodeError"
               /\ idx > i
                    => \E j \in 1..Len(ToolResults) :
                          /\ ToolResults[j].tool_call_id = i
                          /\ Failed(ToolResults[j])
               /\ (pc = "done" /\ fault = "") => BatchDone


\* The action reply was usable and carried no native tool_calls list.
NoNativeCalls ==
    /\ Issued("action")
    /\ Usable(ReplyTo("action"))
    /\ ReplyTo("action").choices[1].tool_calls = << >>
ActionContent == ReplyTo("action").choices[1].content
\* JSON-shaped text of the modelled replies is text with a fenced block.
HasJsonShape(text) == \E i \in 1..Len(text) : text[i] = FenceOpen
WrapperTags == {"<think>", "</think>", "<tool_call>", "</tool_call>"}
IsNoTag(chunk) == chunk \notin WrapperTags
TrimTags(text) == SelectSeq(text, IsNoTag)
FreeTextOnly ==
    /\ NoNativeCalls
    /\ ActionContent.t = "str"
    /\ ~HasJsonShape(ActionContent.v)

FencedCalls == parse_tool_calls_from_content(ActionContent.v).calls
FencedBlockOnly ==
    /\ NoNativeCalls
    /\ ActionContent.t = "str"
    /\ FencedCalls # << >>
C8_FencedCallsExecuted ==
    /\ Len(parse_tool_calls_from_content(FencedTimeCall).calls) = 1
    /\ (pc = "done" /\ FencedBlockOnly)
        => /\ "fenced" \in strategies
           /\ Len(invoked) = Len(FencedCalls)
           /\ \A i \in 1..Len(FencedCalls) : invoked[i].name = FencedCalls[i].name

\* C9: when the native list holds at least one call, the calls executed
\* are exactly those of the list, in order, and no other extraction strategy
\* is used.  A call counts as executed once the loop has dispatched it (its
\* iteration ended, or its capability was entered).
Dispatched ==
    {i \in 1..Len(tool_calls) :
        i < idx \/ \E k \in 1..Len(invoked) : invoked[k].id = i}
C9_NativeListExecutedWhole ==
    (pc = "done" /\ tool_calls # << >>)
        => /\ Dispatched = 1..Len(tool_calls)
           /\ strategies = {"native"}

\* C10: the synthesis request carries, in order, the system and user
\* messages of the action request, the assistant message with the calls,
\* one tool-result message per call of the batch in call order, and last
\* the instruction message.
C10_SynthesisMessageOrder ==
    \A k \in 1..Len(requests) :
        requests[k].step = "synthesis"
            => LET m == requests[k].messages
                   n == Len(tool_calls)
               IN  /\ Len(m) = n + 4
                   /\ m[1] = SystemMsg(ExecutorPrompt)
                   /\ m[2] = UserMsg(UserText)
                   /\ m[3].role = "assistant" /\ m[3].tool_calls = tool_calls
                   /\ \A i \in 1..n :
                        /\ m[3 + i].role = "tool"
                        /\ m[3 + i].tool_call_id = tool_calls[i].id
                   /\ m[n + 4] = UserMsg(FinalInstruction)


\* C11: the synthesis request is issued only in runs where at least one
\* action call was executed: a run that invoked no capability never issues
\* a synthesis request.
C11_SynthesisOnlyAfterInvocation ==
    Issued("synthesis") => invoked # << >>


\* C12: the synthesis request is sent without capability declarations, and
\* whatever its reply contains (structured calls, a fenced block), nothing
\* is extracted from it and no capability is invoked after it: it is the
\* last request and the run ends returning the content of that reply.
C12_SynthesisIsFinal ==
    \A k \in 1..Len(requests) :
        requests[k].step = "synthesis"
            => /\ requests[k].tools = FALSE
               /\ k = Len(requests)
               /\ pc = "done"
               /\ strategies = {"native"}
               /\ tool_calls = ReplyTo("action").choices[1].tool_calls
               /\ \A j \in 1..Len(invoked) :
                    \E i \in 1..Len(tool_calls) :
                        invoked[j].id = i /\ invoked[j].name = tool_calls[i].name
               /\ Len(ToolResults) <= Len(tool_calls)
               /\ Usable(replies[k])
                    => (outcome = "returned" /\ result = replies[k].choices[1].content)
C12_Witness ==
    /\ Issued("synthesis")
    /\ Usable(ReplyTo("synthesis"))
    /\ ReplyTo("synthesis").choices[1].tool_calls # << >>
    /\ invoked # << >>
    /\ result = Str(DoneText)


\* The tool results whose text is part of the value run_agent returned.
IsSubText(part, text) ==
    \E i \in 0..(Len(text) - Len(part)) : SubSeq(text, i + 1, i + Len(part)) = part
ResultsReturned ==
    {j \in 1..Len(ToolResults) :
        result.t = "str" /\ IsSubText(ToolResults[j].content.v, result.v)}

\* C13: when the synthesis request fails after a batch was executed,
\* run_agent returns the fixed summary-failed message, and the results of
\* the executed actions are still part of what the caller receives.
C13_SummaryFailureKeepsResults ==
    (Issued("synthesis") /\ ~Usable(ReplyTo("synthesis")))
        => /\ outcome = "returned"
           /\ IsSubText(SummaryFailed.v, result.v)
           /\ ResultsReturned = 1..Len(ToolResults)


\* C14: the synthesis request is issued only after the action reply was
\* received and every call of the batch has produced its result, and the
\* messages it sends hold the result of every call of the batch.
C14_SynthesisAfterAllResults ==
    \A k \in 1..Len(requests) :
        requests[k].step = "synthesis"
            => /\ \E a \in 1..(k - 1) :
                    requests[a].step = "action" /\ Usable(replies[a])
               /\ BatchDone
               /\ \A i \in 1..Len(tool_calls) :
                    \E n \in 1..Len(requests[k].messages) :
                        /\ requests[k].messages[n].role = "tool"
                        /\ requests[k].messages[n].tool_call_id = tool_calls[i].id


\* C15: at every capability invocation made by run_agent the name of the
\* call is a key of the capability table and the arguments are a decoded
\* mapping from parameter names to values, never an encoded string or a
\* value that is no mapping.
C15_InvocationsNamedAndDecoded ==
    \A k \in 1..Len(invoked) :
        /\ invoked[k].name \in AVAILABLE_FUNCTIONS
        /\ invoked[k].args_type = "dict"
        /\ Keys(invoked[k].args) \subseteq Parameters(invoked[k].name)
C15_Witness ==
    \E k \in 1..Len(invoked) :
        /\ tool_calls[invoked[k].id].arguments = ArgString(KitchenLampText)
        /\ invoked[k].args = {<<"device_id", "kitchen_lamp">>}
        /\ \E i \in 1..Len(tool_calls) :
              tool_calls[i].arguments = ArgString(ListText) /\ i < idx

\* C16: every capability of the table returns, for every argument mapping
\* and every outcome of its collaborator, a result mapping that holds a
\* boolean success field.
C16_ResultsCarrySuccess ==
    \A k \in 1..Len(invoked) :
        /\ invoked[k].raised = ""
        /\ invoked[k].type = "dict"
        /\ invoked[k].success \in {"true", "false"}

\* C18: when the router yields conversation, run_agent issues exactly one
\* further completion request, without capability declarations, invokes no
\* capability, and returns the content of that reply; when that request
\* fails it returns the fixed apology text.
C18_ConversationPath ==
    (intent = "conversation" /\ pc = "done")
        => /\ Len(requests) = 2
           /\ requests[2].step = "conversation"
           /\ requests[2].tools = FALSE
           /\ invoked = << >>
           /\ IF Usable(replies[2])
              THEN outcome = "returned" /\ result = ReplyContent(replies[2])
              ELSE outcome = "returned" /\ result = ConverseApology

\* C20: an argument payload that is already a mapping is passed to the
\* capability unchanged, and a payload that is a validly encoded mapping
\* gives the same invocation as the decoded mapping of the same values: every
\* call the loop has taken whose payload is a mapping that binds to a
\* capability of the table has an invocation with exactly that mapping.
Taken(i) == i < idx \/ (i = idx /\ pc = "done")
C20_MappingPassedThrough ==
    \A i \in 1..Len(tool_calls) :
        ( /\ Taken(i)
          /\ tool_calls[i].arguments.kind = "map"
          /\ tool_calls[i].name \in AVAILABLE_FUNCTIONS
          /\ Binds(tool_calls[i].name, tool_calls[i].arguments.map) )
            => \E k \in 1..Len(invoked) :
                  /\ invoked[k].id = i
                  /\ invoked[k].args = tool_calls[i].arguments.map

\* C19: the endpoint handle_agent_query answers a request in which k >= 1
\* actions were executed with k formatted objects, one per executed action
\* in order, and every other request with exactly one object of type
\* general that holds the text of run_agent.
IsExecuted(inv) == inv.raised = ""
Executed == SelectSeq(invoked, IsExecuted)
C19_OneObjectPerAction ==
    http.status = "200"
        => IF Executed # << >>
           THEN /\ Len(http.body) = Len(Executed)
                /\ \A k \in 1..Len(Executed) :
                      http.body[k].type \in {ResponseType(Executed[k].name), "error"}
           ELSE http.body = <<ResponseObject("general", result, NoneVal)>>

\* C17: two overlapping invocations of run_agent share no mutable state:
\* under every interleaving the messages of one invocation (hence the text
\* it returns for the same replies) are what they are when it runs alone.
ToolResultsOf(run) == SelectSeq(run.messages, IsToolResult)
C17_InvocationsIsolated ==
    \A p \in Invocations : ToolResultsOf(runs[p]) = runs[p].alone

\* C21: when the free text of the action reply holds two adjacent bare call
\* objects, one valid and one without its closing brace, and there is no
\* native list and no fenced block, exactly one call is executed, the valid
\* one, and the malformed one is skipped without a fault.
BareObjectsOnly == NoNativeCalls /\ ActionContent = Str(BareObjects)
C21_BareObjectExecuted ==
    (pc = "done" /\ BareObjectsOnly)
        => /\ Len(invoked) = 1
           /\ invoked[1].name = "call_get_current_time"
           /\ outcome = "returned"

\* C22: parse_tool_calls_from_content returns the parsed list when the first
\* fenced block holds a list, a one-element list when it holds one object,
\* and no calls when there is no fenced block, when the block does not parse
\* or when it parses to neither; every list it returns is a non-empty list
\* of call objects.
IsFence(chunk) == chunk \in {FenceOpen, FenceClose}
IsCallObject(c) == c.name # ""
BlockOf(text) ==
    IF \E i \in 1..(Len(text) - 2) :
          /\ text[i] = FenceOpen
          /\ \A k \in 1..(i - 1) : text[k] # FenceOpen
          /\ ~IsFence(text[i + 1])
          /\ IsFence(text[i + 2])
    THEN LET i == CHOOSE k \in 1..Len(text) : text[k] = FenceOpen /\ \A m \in 1..(k - 1) : text[m] # FenceOpen
         IN  JsonDocument(<<text[i + 1]>>)
    ELSE JsonDocument(<< >>)
C22_ParseFencedBlock ==
    out # NotCalled
        => /\ (BlockOf(arg).type \in {"list", "dict"})
                => (out.value.found /\ out.value.calls = BlockOf(arg).calls)
           /\ (BlockOf(arg).type \notin {"list", "dict"}) => ~out.value.found
           /\ out.value.found
                => /\ out.value.calls # << >>
                   /\ \A k \in 1..Len(out.value.calls) : IsCallObject(out.value.calls[k])

\* C23: a device capability called with a device_id that is not in the
\* device map returns a failed result and generates and sends no command;
\* called with a known device_id it sends exactly one command, addressed to
\* the slave id and register of the device, with value 2 for turn-on and 1
\* for turn-off, and returns success with the display name and the action
\* exactly when the send reports success.
DeviceReturned == out # NotCalled /\ out.stage = "returned"
C23_DeviceCommand ==
    /\ (out # NotCalled /\ arg.device_id \notin DEVICE_MAP)
          => /\ out.stage = "returned"
             /\ ~out.value.success
             /\ out.generated = << >> /\ out.passed = << >>
    /\ (out # NotCalled /\ arg.device_id \in DEVICE_MAP)
          => /\ Len(out.generated) = 1
             /\ out.stage \in {"sent", "returned"} => out.passed = out.generated
             /\ LET command == out.generated[1]
                    device == DeviceInfo(arg.device_id)
                IN  /\ command.slave_id = device.slave_id
                    /\ command.register = device.register
                    /\ command.value = (IF arg.fn = "turn_on_device" THEN 2 ELSE 1)
             /\ out.stage = "returned"
                  => /\ out.value.success = out.reported
                     /\ out.reported = (out.port = "written")
                     /\ out.value.success
                          => /\ out.value.deviceName = DeviceInfo(arg.device_id).name
                             /\ out.value.action =
                                  (IF arg.fn = "turn_on_device" THEN "turned on"
                                   ELSE "turned off")
C23_Witness ==
    /\ DeviceReturned
    /\ arg = [fn |-> "turn_off_device", device_id |-> "room1_ac"]
    /\ out.value = DeviceDone("Room 1 AC Unit", "turned off")
    /\ out.passed = <<WriteCommand(55, 1, 1)>>

\* C24: in every run of run_agent the completion requests are issued in the
\* order classification, then action or conversation, then synthesis:
\* exactly one classification request, at most one action request, at most
\* one synthesis request, never more than three, and a failed request is
\* never issued again.
StepOf(k) == requests[k].step
C24_RequestOrder ==
    /\ Len(requests) <= 3
    /\ pc \in {"act", "interpret", "execute", "converse", "done"} => Len(requests) >= 1
    /\ \A k \in 1..Len(requests) :
          /\ (StepOf(k) = "classify") = (k = 1)
          /\ StepOf(k) \in {"action", "conversation"} => k = 2
          /\ StepOf(k) = "synthesis" => (k = 3 /\ StepOf(2) = "action")
          /\ \A j \in 1..(k - 1) : StepOf(j) # StepOf(k)
          /\ (k >= 2 /\ ~Usable(replies[k])) => (k = Len(requests) /\ pc = "done")
C24_Witness ==
    /\ pc = "done"
    /\ Len(requests) = 3
    /\ StepOf(3) = "synthesis"
    /\ ~Usable(replies[3])
    /\ outcome = "returned"

\* C25: the set of action names that get_tools_schema advertises equals the
\* key set of AVAILABLE_FUNCTIONS: every advertised name can be dispatched
\* and every capability that can be dispatched is advertised.
AdvertisedNames == {get_tools_schema[k].name : k \in 1..Len(get_tools_schema)}
C25_AdvertisedIsDispatchable ==
    /\ AdvertisedNames = AVAILABLE_FUNCTIONS
    /\ \A k \in 1..Len(invoked) : invoked[k].name \in AdvertisedNames
    /\ \A i \in 1..Len(tool_calls) :
          (i < idx /\ tool_calls[i].name \in AdvertisedNames
                   /\ json_loads(tool_calls[i].arguments).raised = "")
              => \E m \in 1..Len(messages) :
                    \/ messages[m].role = "tool" /\ messages[m].tool_call_id = i
                    \/ \E k \in 1..Len(invoked) : invoked[k].id = i
C25_Witness ==
    /\ \E k \in 1..Len(requests) : requests[k].step = "action" /\ requests[k].tools
    /\ \E k \in 1..Len(invoked) :
          invoked[k].name = "call_turn_on_device" /\ invoked[k].raised = ""
    /\ \E i \in 1..Len(tool_calls) : i < idx /\ tool_calls[i].name \notin AdvertisedNames

\* C26: one call of get_llm_response contacts the preferred provider first
\* and the other provider only when the preferred one gave no usable reply:
\* at most two provider calls, never the same provider twice, the first
\* usable reply is returned, and a preferred_service that is neither groq
\* nor togetherai is rejected without contacting a provider.
UsableReplies == {k \in 1..Len(out.got) : out.got[k].raised = "" /\ Truthy(out.got[k].value)}
C26_PreferredThenOther ==
    out # NotCalled
        => /\ Len(out.called) <= 2
           /\ arg.preferred_service \notin {"groq", "togetherai"}
                => (out.called = << >> /\ out.stage = "done" /\ out.raised = "ValueError")
           /\ arg.preferred_service \in {"groq", "togetherai"}
                => /\ out.called[1] = arg.preferred_service
                   /\ \A k \in 1..Len(out.called) : out.called[k] \in {"groq", "togetherai"}
           /\ Len(out.called) = 2
                => /\ out.called[2] # out.called[1]
                   /\ 1 \notin UsableReplies
           /\ (out.stage = "done" /\ UsableReplies # {})
                => /\ out.raised = ""
                   /\ out.value = out.got[CHOOSE k \in UsableReplies :
                                             \A j \in UsableReplies : k <= j].value
C26_Witness ==
    /\ out # NotCalled
    /\ out.stage = "done"
    /\ out.called = <<"togetherai", "groq">>
    /\ out.got[1].posted /\ out.got[2].posted
    /\ Truthy(out.value)

\* C27: for every slave id in 0..255 and every register and value in
\* 0..65535 generate_write_command returns exactly 8 bytes: slave id,
\* function code 6, register high and low byte, value high and low byte,
\* then the CRC-16/Modbus (initial 0xFFFF, reflected polynomial 0xA001) of
\* the first six bytes, low byte first; calculate_crc stays within
\* 0..0xFFFF.  The CRC is stated on sets of bit positions: exclusive or is
\* the symmetric difference, a shift lowers every position by one.
BitsOf(n) == {i \in 0..15 : (n \div (2 ^ i)) % 2 = 1}
SymDiff(A, B) == (A \ B) \cup (B \ A)
PolyBits == {15, 13, 0}
BitShift(S) ==
    LET T == {i - 1 : i \in S \ {0}}
    IN  IF 0 \in S THEN SymDiff(T, PolyBits) ELSE T
RECURSIVE BitShifts(_, _)
BitShifts(S, n) == IF n = 0 THEN S ELSE BitShifts(BitShift(S), n - 1)
CrcBounded ==
    (out # NotCalled)
        => /\ out.crc \in 0..65535
           /\ out.i < Len(out.command)
                => \A n \in 0..8 :
                      CrcShifts(Xor(out.crc, out.command[out.i + 1]), n) \in 0..65535
FrameReturned ==
    (out # NotCalled /\ out.stage = "returned")
        => LET command == out.command
           IN  /\ Len(command) = 8
               /\ \A k \in 1..8 : command[k] \in 0..255
               /\ command[1] = arg.slave_id
               /\ command[2] = 6
               /\ 256 * command[3] + command[4] = arg.register
               /\ 256 * command[5] + command[6] = arg.value
               /\ command[7] + 256 * command[8] = out.crc
               /\ out.i = 6
               /\ arg = [slave_id |-> 17, register |-> 1, value |-> 3]
                     => command = <<17, 6, 0, 1, 0, 3, 154, 155>>
CrcStep ==
    /\ (out = NotCalled /\ out' # NotCalled)
          => (BitsOf(out'.crc) = 0..15 /\ out'.i = 0)
    /\ (out # NotCalled /\ out' # out /\ out'.stage = "crc")
          => /\ out'.i = out.i + 1
             /\ out'.command = out.command
             /\ BitsOf(out'.crc)
                  = BitShifts(SymDiff(BitsOf(out.crc), BitsOf(out.command[out'.i])), 8)
    /\ (out # NotCalled /\ out'.stage = "returned") => out'.crc = out.crc
====
